---- MODULE Spec2Model ----
(***************************************************************************)
(* Model of seisflows/preprocess/base.py: the trace preprocessing class    *)
(* `base` (filter/mute conditioning, misfit and adjoint kernel dispatch,   *)
(* residual writing, adjoint trace generation, header reconciliation).     *)
(*                                                                         *)
(* Representation                                                          *)
(*   - a name (PAR.MISFIT) is a sequence of one-character strings, so that *)
(*     str.lower() is a real conversion;                                   *)
(*   - a trace matrix s is a sequence over receivers of columns, s[i] is   *)
(*     the numpy column s[:,i-1], a sequence of nt integer samples;        *)
(*   - a multi-channel container (Struct) is a function channel -> matrix; *)
(*   - the float array held by the synthetic container after               *)
(*     normalization is s[ch][i][t] / sqrt(scale[ch][i]); scale 1 is an    *)
(*     undivided column, scale 0 a division by zero;                       *)
(*   - eps = 0.05 is kept in hundredths (EnvelopeEps).                     *)
(* The numerical routines of seisflows.seistools (sbandpass, smute,        *)
(* the misfit and adjoint kernels) are not part of base.py; integer        *)
(* stand-ins that keep their contracts (per-column, direction, arguments   *)
(* used) replace them.                                                     *)
(***************************************************************************)
EXTENDS Integers, Sequences, FiniteSets, TLC

VARIABLES PAR, channels, hdr_obs, hdr_syn, raw_obs, raw_syn,
          pc, ci, h, d, s, scale, r, residuals, nwrites, adj,
          err, warnings, fcalls

vars == <<PAR, channels, hdr_obs, hdr_syn, raw_obs, raw_syn,
          pc, ci, h, d, s, scale, r, residuals, nwrites, adj,
          err, warnings, fcalls>>

inputs == <<PAR, channels, hdr_obs, hdr_syn, raw_obs, raw_syn>>

(***************************************************************************)
(* Bounds of the model.                                                    *)
(***************************************************************************)
NumRec == 2
NumSamp == 2
MaxVal == 1
MaxFreq == 1
MaxPrefix == 2

\* eps=0.05 of the envelope kernels, in hundredths
EnvelopeEps == 5

(***************************************************************************)
(* Characters and str.lower()                                              *)
(***************************************************************************)
LowerLetters == <<"a","b","c","d","e","f","g","h","i","j","k","l","m",
                  "n","o","p","q","r","s","t","u","v","w","x","y","z">>
UpperLetters == <<"A","B","C","D","E","F","G","H","I","J","K","L","M",
                  "N","O","P","Q","R","S","T","U","V","W","X","Y","Z">>

lower_char(c) ==
    IF \E k \in 1..26 : UpperLetters[k] = c
    THEN LowerLetters[CHOOSE k \in 1..26 : UpperLetters[k] = c]
    ELSE c

lower(name) == [k \in 1..Len(name) |-> lower_char(name[k])]

upper_char(c) ==
    IF \E k \in 1..26 : LowerLetters[k] = c
    THEN UpperLetters[CHOOSE k \in 1..26 : LowerLetters[k] = c]
    ELSE c

(***************************************************************************)
(* Arithmetic helpers                                                      *)
(***************************************************************************)
RECURSIVE Sum(_, _)
Sum(f, n) == IF n = 0 THEN 0 ELSE f[n] + Sum(f, n - 1)

Abs(x) == IF x < 0 THEN -x ELSE x
Sgn(x) == IF x < 0 THEN -1 ELSE IF x > 0 THEN 1 ELSE 0

SumSq(w, nt) == Sum([t \in 1..nt |-> w[t] * w[t]], nt)

\* cross-correlation of wsyn and wobs at integer lag
XCorr(wsyn, wobs, nt, lag) ==
    Sum([t \in 1..nt |->
            IF t + lag \in 1..nt THEN wsyn[t + lag] * wobs[t] ELSE 0], nt)

\* lag of the cross-correlation maximum (smallest lag among equal maxima)
Shift(wsyn, wobs, nt) ==
    CHOOSE l \in (1 - nt)..(nt - 1) :
        \A l2 \in (1 - nt)..(nt - 1) :
            \/ XCorr(wsyn, wobs, nt, l) > XCorr(wsyn, wobs, nt, l2)
            \/ XCorr(wsyn, wobs, nt, l) = XCorr(wsyn, wobs, nt, l2) /\ l <= l2

(***************************************************************************)
(* seisflows.seistools.misfit: scalar misfit kernels (stand-ins)           *)
(***************************************************************************)
misfit_wdiff(wsyn, wobs, nt, dt) ==
    dt * Sum([t \in 1..nt |-> (wsyn[t] - wobs[t]) * (wsyn[t] - wobs[t])], nt)

misfit_wtime(wsyn, wobs, nt, dt) == dt * Shift(wsyn, wobs, nt)

misfit_wampl(wsyn, wobs, nt, dt) == dt * (SumSq(wsyn, nt) - SumSq(wobs, nt))

misfit_ediff(wsyn, wobs, nt, dt, eps) ==
    100 * dt * Sum([t \in 1..nt |->
        (Abs(wsyn[t]) - Abs(wobs[t])) * (Abs(wsyn[t]) - Abs(wobs[t]))], nt)
    + eps * nt

misfit_cdiff(wsyn, wobs, nt, dt) == 1 - dt * XCorr(wsyn, wobs, nt, 0)

(***************************************************************************)
(* seisflows.seistools.adjoint: adjoint source kernels (stand-ins)         *)
(***************************************************************************)
adjoint_wdiff(wsyn, wobs, nt, dt) == [t \in 1..nt |-> wsyn[t] - wobs[t]]

adjoint_wtime(wsyn, wobs, nt, dt) ==
    [t \in 1..nt |->
        (Shift(wsyn, wobs, nt) + 1) *
        ((IF t < nt THEN wsyn[t + 1] ELSE 0) - (IF t > 1 THEN wsyn[t - 1] ELSE 0))]

adjoint_wampl(wsyn, wobs, nt, dt) ==
    [t \in 1..nt |-> (SumSq(wsyn, nt) - SumSq(wobs, nt) + 1) * wsyn[t] + dt]

adjoint_ediff(wsyn, wobs, nt, dt, eps) ==
    [t \in 1..nt |-> 100 * (Abs(wsyn[t]) - Abs(wobs[t])) * Sgn(wsyn[t]) + eps]

adjoint_cdiff(wsyn, wobs, nt, dt) == [t \in 1..nt |-> 2 * wsyn[t] - 3 * wobs[t]]

(***************************************************************************)
(* seisflows.seistools: filter and mute stages (stand-ins)                 *)
(***************************************************************************)
\* per-column two-tap filter; the reverse direction runs the taps backwards
sbandpass(m, hd, freqlo, freqhi, dir) ==
    [i \in 1..hd.nr |-> [t \in 1..hd.nt |->
        IF dir = "reverse"
        THEN freqhi * m[i][t] - freqlo * (IF t < hd.nt THEN m[i][t + 1] ELSE 0)
        ELSE freqhi * m[i][t] - freqlo * (IF t > 1 THEN m[i][t - 1] ELSE 0)]]

\* zero the samples earlier than t_cut = vel * offset + off
smute(m, hd, vel, off) ==
    [i \in 1..hd.nr |-> [t \in 1..hd.nt |->
        IF (t - 1) * hd.dt < vel * hd.rx[i] + off THEN 0 ELSE m[i][t]]]

\* names bound in base.py by its import of seisflows.seistools
Imported == {"adjoint", "misfit", "sbandpass", "smute", "readers", "writers"}


(***************************************************************************)
(* Names of the misfit functions, as written in call_adjoint/call_misfit   *)
(***************************************************************************)
N_waveform == <<"w","a","v","e","f","o","r","m">>
N_wav == <<"w","a","v">>
N_wdiff == <<"w","d","i","f","f">>
N_traveltime == <<"t","r","a","v","e","l","t","i","m","e">>
N_tt == <<"t","t">>
N_wtime == <<"w","t","i","m","e">>
N_amplitude == <<"a","m","p","l","i","t","u","d","e">>
N_ampl == <<"a","m","p","l">>
N_wampl == <<"w","a","m","p","l">>
N_envelope == <<"e","n","v","e","l","o","p","e">>
N_env == <<"e","n","v">>
N_ediff == <<"e","d","i","f","f">>
N_cdiff == <<"c","d","i","f","f">>

(***************************************************************************)
(* misfit/adjoint wrappers                                                 *)
(***************************************************************************)
call_adjoint_fallback_syn(wsyn, wobs, nt, dt) ==
    LET opt == lower(PAR.MISFIT) IN
    IF opt \in {N_waveform, N_wav, N_wdiff} THEN adjoint_wdiff(wsyn, wobs, nt, dt)
    ELSE IF opt \in {N_traveltime, N_tt, N_wtime} THEN adjoint_wtime(wsyn, wobs, nt, dt)
    ELSE IF opt \in {N_amplitude, N_ampl, N_wampl} THEN adjoint_wampl(wsyn, wobs, nt, dt)
    ELSE IF opt \in {N_envelope, N_env, N_ediff}
         THEN adjoint_ediff(wsyn, wobs, nt, dt, EnvelopeEps)
    ELSE IF opt \in {N_cdiff} THEN adjoint_cdiff(wsyn, wobs, nt, dt)
    ELSE wsyn

call_adjoint(wsyn, wobs, nt, dt) ==
    LET opt == lower(PAR.MISFIT) IN
    IF opt \in {N_waveform, N_wav, N_wdiff} THEN adjoint_wdiff(wsyn, wobs, nt, dt)
    ELSE IF opt \in {N_traveltime, N_tt, N_wtime} THEN adjoint_wtime(wsyn, wobs, nt, dt)
    ELSE IF opt \in {N_amplitude, N_ampl, N_wampl} THEN adjoint_wampl(wsyn, wobs, nt, dt)
    ELSE IF opt \in {N_envelope, N_env, N_ediff}
         THEN adjoint_ediff(wsyn, wobs, nt, dt, EnvelopeEps)
    ELSE IF opt \in {N_cdiff} THEN adjoint_cdiff(wsyn, wobs, nt, dt)
    ELSE wobs

call_misfit_case_sensitive(wsyn, wobs, nt, dt) ==
    LET opt == PAR.MISFIT IN
    IF opt \in {N_waveform, N_wav, N_wdiff} THEN misfit_wdiff(wsyn, wobs, nt, dt)
    ELSE IF opt \in {N_traveltime, N_tt, N_wtime} THEN misfit_wtime(wsyn, wobs, nt, dt)
    ELSE IF opt \in {N_amplitude, N_ampl, N_wampl} THEN misfit_wampl(wsyn, wobs, nt, dt)
    ELSE IF opt \in {N_envelope, N_env, N_ediff}
         THEN misfit_ediff(wsyn, wobs, nt, dt, EnvelopeEps)
    ELSE IF opt \in {N_cdiff} THEN misfit_cdiff(wsyn, wobs, nt, dt)
    ELSE 0

call_misfit(wsyn, wobs, nt, dt) ==
    LET opt == lower(PAR.MISFIT) IN
    IF opt \in {N_waveform, N_wav, N_wdiff} THEN misfit_wdiff(wsyn, wobs, nt, dt)
    ELSE IF opt \in {N_traveltime, N_tt, N_wtime} THEN misfit_wtime(wsyn, wobs, nt, dt)
    ELSE IF opt \in {N_amplitude, N_ampl, N_wampl} THEN misfit_wampl(wsyn, wobs, nt, dt)
    ELSE IF opt \in {N_envelope, N_env, N_ediff}
         THEN misfit_ediff(wsyn, wobs, nt, dt, EnvelopeEps)
    ELSE IF opt \in {N_cdiff} THEN misfit_cdiff(wsyn, wobs, nt, dt)
    ELSE 0

(***************************************************************************)
(* Filter stage.  A stage returns [err, m, calls]: the exception raised    *)
(* ("none" when it returned), the matrix, and the filter calls attempted.  *)
(***************************************************************************)
Returned(m) == [err |-> "none", m |-> m, calls |-> <<>>]

\* a call of a seistools filter by name: a name base.py never bound raises
\* NameError; sbandpass is the only filter it imports
call_filter(fn, m, hd, corners, dir) ==
    LET c == [fn |-> fn, corners |-> corners, dir |-> dir] IN
    IF fn \notin Imported
    THEN [err |-> "NameError", m |-> m, calls |-> <<c>>]
    ELSE [err |-> "none", m |-> sbandpass(m, hd, corners[1], corners[2], dir),
          calls |-> <<c>>]

forward_filter_no_raise(m, hd) ==
    IF PAR.FREQLO # 0 /\ PAR.FREQHI # 0
    THEN call_filter("sbandpass", m, hd, <<PAR.FREQLO, PAR.FREQHI>>, "forward")
    ELSE Returned(m)

\* process_traces, "filter data"
forward_filter(m, hd) ==
    IF PAR.FREQLO # 0 /\ PAR.FREQHI # 0
    THEN call_filter("sbandpass", m, hd, <<PAR.FREQLO, PAR.FREQHI>>, "forward")
    ELSE IF PAR.FREQHI # 0
    THEN call_filter("shighpass", m, hd, <<PAR.FREQLO>>, "forward")
    ELSE IF PAR.FREQHI # 0
    THEN call_filter("slowpass", m, hd, <<PAR.FREQHI>>, "forward")
    ELSE [err |-> "ParameterError", m |-> m, calls |-> <<>>]

\* generate_adjoint_traces, "bandpass once more"
reverse_filter(m, hd) ==
    IF PAR.FREQLO # 0 /\ PAR.FREQHI # 0
    THEN call_filter("sbandpass", m, hd, <<PAR.FREQLO, PAR.FREQHI>>, "reverse")
    ELSE IF PAR.FREQHI # 0
    THEN call_filter("shighpass", m, hd, <<PAR.FREQLO>>, "reverse")
    ELSE IF PAR.FREQHI # 0
    THEN call_filter("slowpass", m, hd, <<PAR.FREQHI>>, "reverse")
    ELSE [err |-> "ParameterError", m |-> m, calls |-> <<>>]

process_traces_always_mute(m, hd) ==
    LET f == IF PAR.BANDPASS THEN forward_filter(m, hd) ELSE Returned(m) IN
    IF f.err # "none" THEN f
    ELSE [f EXCEPT !.m = smute(f.m, hd, PAR.MUTESLOPE, PAR.MUTECONST)]

process_traces(m, hd) ==
    LET f == IF PAR.BANDPASS THEN forward_filter(m, hd) ELSE Returned(m) IN
    IF f.err # "none" THEN f
    ELSE IF PAR.MUTE
         THEN [f EXCEPT !.m = smute(f.m, hd, PAR.MUTESLOPE, PAR.MUTECONST)]
         ELSE f

(***************************************************************************)
(* Residuals                                                               *)
(***************************************************************************)
write_residuals_first_column(sm, dm, hd) ==
    [i \in 1..hd.nr |-> call_misfit(sm[i], dm[1], hd.nt, hd.dt)]

\* the vector r of write_residuals (returned, and handed to np.savetxt)
write_residuals(sm, dm, hd) ==
    [i \in 1..hd.nr |-> call_misfit(sm[i], dm[i], hd.nt, hd.dt)]

savetxt_append(old, rv) == old \o rv

\* np.savetxt('residuals', r): the file's content after the call
savetxt(old, rv) == rv

(***************************************************************************)
(* Adjoint traces                                                          *)
(***************************************************************************)
\* the loop "s[:,i] = self.call_adjoint(s[:,i], d[:,i], h.nt, h.dt)"
adjoint_columns(sm, dm, hd) ==
    [i \in 1..hd.nr |-> call_adjoint(sm[i], dm[i], hd.nt, hd.dt)]

normalize_first_receiver(dm, hd) ==
    [ir \in 1..hd.nr |->
        LET w2 == SumSq(dm[1], hd.nt) IN IF w2 > 0 THEN w2 ELSE 1]

\* "normalize traces": the squared divisor of every column (1: not divided);
\* w = norm(d[:,ir]) is positive exactly when its square is
normalize(dm, hd) ==
    [ir \in 1..hd.nr |->
        LET w2 == SumSq(dm[ir], hd.nt) IN IF w2 > 0 THEN w2 ELSE 1]

Undivided(hd) == [ir \in 1..hd.nr |-> 1]

\* [err, m, calls] of the filter, raw: s as overwritten in place by the loop,
\* scale: the squared divisors
generate_adjoint_traces(sm, dm, hd) ==
    LET raw == adjoint_columns(sm, dm, hd)
        f == IF PAR.BANDPASS THEN reverse_filter(raw, hd) ELSE Returned(raw)
    IN  [err |-> f.err, m |-> f.m, calls |-> f.calls, raw |-> raw,
         scale |-> IF f.err = "none" /\ PAR.NORMALIZE
                   THEN normalize(dm, hd) ELSE Undivided(hd)]

(***************************************************************************)
(* Headers                                                                 *)
(***************************************************************************)
check_headers_force_nt(headers, c) ==
    LET h0 == headers[c]
        h1 == IF "DT" \in DOMAIN PAR /\ h0.dt # PAR.DT
              THEN [h0 EXCEPT !.dt = PAR.DT] ELSE h0
        h2 == IF "NT" \in DOMAIN PAR /\ h1.nt # PAR.NT
              THEN [h1 EXCEPT !.nt = PAR.NT] ELSE h1
    IN  [h |-> h2, warn |-> <<>>]

\* c is the key whose header headers.values()[0] yields
check_headers(headers, c) ==
    LET h0 == headers[c]
        h1 == IF "DT" \in DOMAIN PAR /\ h0.dt # PAR.DT
              THEN [h0 EXCEPT !.dt = PAR.DT] ELSE h0
        w1 == IF "NT" \in DOMAIN PAR /\ h1.nt # PAR.NT
              THEN <<"Warning: h.nt != PAR.NT">> ELSE <<>>
        w2 == IF "NREC" \in DOMAIN PAR /\ h1.nr # PAR.NREC
              THEN <<"Warning: h.nr != PAR.NREC">> ELSE <<>>
    IN  [h |-> h1, warn |-> w1 \o w2]


(***************************************************************************)
(* Inputs: what the reader collaborator and the parameter file supply      *)
(***************************************************************************)
Range(f) == {f[k] : k \in DOMAIN f}

Header(dt) == [nt |-> NumSamp, nr |-> NumRec, dt |-> dt,
               rx |-> [i \in 1..NumRec |-> i - 1]]

NoHeader == [nt |-> 0, nr |-> 0, dt |-> 0, rx |-> <<>>]

\* observed data of amplitude a whose receiver z (if any) recorded nothing
ObsMat(z, a) ==
    [i \in 1..NumRec |-> [t \in 1..NumSamp |->
        IF i = z THEN 0 ELSE IF t <= i THEN a ELSE 0]]

SynMat(b) ==
    [i \in 1..NumRec |-> [t \in 1..NumSamp |-> (b + i + t) % (MaxVal + 1)]]

N_bogus == <<"b","o","g","u","s">>

RECURSIVE CaseVariants(_)
CaseVariants(w) ==
    IF w = <<>> THEN {<<>>}
    ELSE {<<c>> \o v : c \in {Head(w), upper_char(Head(w))},
                       v \in CaseVariants(Tail(w))}

AliasNames == {N_waveform, N_wav, N_wdiff, N_traveltime, N_tt, N_wtime,
               N_amplitude, N_ampl, N_wampl, N_envelope, N_env, N_ediff,
               N_cdiff}

upper(name) == [k \in 1..Len(name) |-> upper_char(name[k])]

Prefixes(a) == {SubSeq(a, 1, k) : k \in {j \in 1..MaxPrefix : j <= Len(a)}}

\* names outside every alias group: prefixes and extensions of the aliases
UnknownLower ==
    ({N_bogus, <<>>}
     \cup UNION {Prefixes(a) : a \in AliasNames}
     \cup {a \o <<"s">> : a \in AliasNames}) \ AliasNames

UnknownNames == UnknownLower \cup {upper(n) : n \in UnknownLower}

KernelNames == UNION {CaseVariants(a) : a \in AliasNames} \cup UnknownNames

PipeNames == {N_wav, <<"E","n","v">>, N_bogus}

BasePAR(name, norm, mute, filt) ==
    [MISFIT |-> name, NORMALIZE |-> norm,
     MUTE |-> mute[1], MUTESLOPE |-> mute[2], MUTECONST |-> mute[3],
     BANDPASS |-> filt[1], FREQLO |-> filt[2], FREQHI |-> filt[3]]

MuteSettings == {<<FALSE, 0, 0>>, <<FALSE, 0, 1>>, <<TRUE, 0, 1>>, <<TRUE, 1, 0>>}

FilterSettings == BOOLEAN \X {0, MaxFreq} \X {0, MaxFreq}

Optional(key, S) == {<<>>} \cup {key :> v : v \in S}

ChannelLists == {<<"x">>, <<"x", "z">>}

\* the state of a fresh object after check() and setup(), before any call
Fresh ==
    /\ pc = "load"
    /\ ci = 1
    /\ h = NoHeader
    /\ d = <<>>
    /\ s = <<>>
    /\ scale = <<>>
    /\ r = <<>>
    /\ residuals = <<>>
    /\ nwrites = 0
    /\ adj = <<>>
    /\ err = "none"
    /\ warnings = <<>>
    /\ fcalls = <<>>

\* every filter, mute and normalization setting over a few data sets
Init ==
    /\ channels \in ChannelLists
    /\ \E name \in PipeNames, norm \in BOOLEAN,
          mute \in MuteSettings, filt \in FilterSettings :
            PAR = BasePAR(name, norm, mute, filt)
    /\ hdr_obs = [c \in Range(channels) |-> Header(1)]
    /\ hdr_syn = hdr_obs
    /\ raw_obs \in [Range(channels) -> {ObsMat(z, MaxVal) : z \in 0..NumRec}]
    /\ \E b \in 0..MaxVal : raw_syn = [c \in Range(channels) |-> SynMat(b)]
    /\ Fresh

\* every spelling of the misfit name over one channel
InitKernel ==
    /\ channels = <<"x">>
    /\ \E name \in KernelNames, filt \in {<<FALSE, 0, 0>>, <<TRUE, 0, 0>>} :
          PAR = BasePAR(name, TRUE, <<FALSE, 0, 0>>, filt)
    /\ hdr_obs = [c \in Range(channels) |-> Header(1)]
    /\ hdr_syn = hdr_obs
    /\ raw_obs \in [Range(channels) -> {ObsMat(z, MaxVal) : z \in 0..1}]
    /\ \E b \in 0..1 : raw_syn = [c \in Range(channels) |-> SynMat(b)]
    /\ Fresh

\* every header and expected-metadata setting
InitHeader ==
    /\ channels \in ChannelLists
    /\ \E pdt \in Optional("DT", 1..2),
          pnt \in Optional("NT", NumSamp..(NumSamp + 1)),
          pnr \in Optional("NREC", NumRec..(NumRec + 1)),
          filt \in {<<FALSE, 0, 0>>, <<TRUE, 0, 0>>} :
            PAR = BasePAR(N_wav, TRUE, <<FALSE, 0, 0>>, filt) @@ pdt @@ pnt @@ pnr
    /\ hdr_obs \in [Range(channels) -> {Header(dt) : dt \in 1..2}]
    /\ hdr_syn = hdr_obs
    /\ raw_obs = [c \in Range(channels) |-> ObsMat(0, MaxVal)]
    /\ raw_syn = [c \in Range(channels) |-> SynMat(0)]
    /\ Fresh

(***************************************************************************)
(* prepare_eval_grad: one step per statement and per channel of an apply   *)
(***************************************************************************)
NextPhase_adjoint_first(p) ==
    CASE p = "load" -> "obs"
      [] p = "obs" -> "syn"
      [] p = "syn" -> "adjoint"
      [] p = "adjoint" -> "resid"
      [] p = "resid" -> "save"
      [] p = "save" -> "done"

\* the order of the statements of prepare_eval_grad
NextPhase(p) ==
    CASE p = "load" -> "obs"
      [] p = "obs" -> "syn"
      [] p = "syn" -> "resid"
      [] p = "resid" -> "adjoint"
      [] p = "adjoint" -> "save"
      [] p = "save" -> "done"

\* "for channel in self.channels" of apply and save
Advance ==
    IF ci < Len(channels)
    THEN ci' = ci + 1 /\ pc' = pc
    ELSE ci' = 1 /\ pc' = NextPhase(pc)

Raise(e) == pc' = "failed" /\ err' = e /\ ci' = ci

\* d, h = self.load('traces/obs/'); s, _ = self.load('traces/syn/')
Load ==
    /\ pc = "load"
    /\ \E c \in Range(channels) :
          LET ho == check_headers(hdr_obs, c)
              hs == check_headers(hdr_syn, c)
          IN  /\ h' = ho.h
              /\ warnings' = warnings \o ho.warn \o hs.warn
    /\ d' = raw_obs
    /\ s' = raw_syn
    /\ scale' = [c \in Range(channels) |-> Undivided(hdr_obs[c])]
    /\ pc' = NextPhase(pc)
    /\ ci' = 1
    /\ UNCHANGED <<inputs, r, residuals, nwrites, adj, err, fcalls>>

\* d = self.apply(self.process_traces, [d], [h]), one channel
ProcessObs ==
    /\ pc = "obs"
    /\ LET ch == channels[ci]
           res == process_traces(d[ch], h)
       IN  /\ fcalls' = fcalls \o res.calls
           /\ IF res.err # "none"
              THEN Raise(res.err) /\ d' = d
              ELSE d' = [d EXCEPT ![ch] = res.m] /\ Advance /\ err' = err
    /\ UNCHANGED <<inputs, h, s, scale, r, residuals, nwrites, adj, warnings>>

\* s = self.apply(self.process_traces, [s], [h]), one channel
ProcessSyn ==
    /\ pc = "syn"
    /\ LET ch == channels[ci]
           res == process_traces(s[ch], h)
       IN  /\ fcalls' = fcalls \o res.calls
           /\ IF res.err # "none"
              THEN Raise(res.err) /\ s' = s
              ELSE s' = [s EXCEPT ![ch] = res.m] /\ Advance /\ err' = err
    /\ UNCHANGED <<inputs, h, d, scale, r, residuals, nwrites, adj, warnings>>

\* r = self.apply(self.write_residuals, [s, d], [h], inplace=False), one channel
WriteResiduals ==
    /\ pc = "resid"
    /\ LET ch == channels[ci]
           rv == write_residuals(s[ch], d[ch], h)
       IN  /\ residuals' = savetxt(residuals, rv)
           /\ nwrites' = nwrites + 1
           /\ r' = (ch :> rv) @@ r
    /\ Advance
    /\ UNCHANGED <<inputs, h, d, s, scale, adj, err, warnings, fcalls>>

\* s = self.apply(self.generate_adjoint_traces, [s, d], [h]), one channel
GenerateAdjoint ==
    /\ pc = "adjoint"
    /\ LET ch == channels[ci]
           res == generate_adjoint_traces(s[ch], d[ch], h)
       IN  /\ fcalls' = fcalls \o res.calls
           /\ IF res.err # "none"
              THEN /\ Raise(res.err)
                   /\ s' = [s EXCEPT ![ch] = res.raw]
                   /\ scale' = scale
              ELSE /\ s' = [s EXCEPT ![ch] = res.m]
                   /\ scale' = [scale EXCEPT ![ch] = res.scale]
                   /\ Advance
                   /\ err' = err
    /\ UNCHANGED <<inputs, h, d, r, residuals, nwrites, adj, warnings>>

\* self.save(s, h, prefix='traces/adj/'), one channel
Save ==
    /\ pc = "save"
    /\ LET ch == channels[ci]
       IN  adj' = (ch :> [m |-> s[ch], scale |-> scale[ch]]) @@ adj
    /\ Advance
    /\ UNCHANGED <<inputs, h, d, s, scale, r, residuals, nwrites, err,
                   warnings, fcalls>>

Next ==
    \/ Load
    \/ ProcessObs
    \/ ProcessSyn
    \/ WriteResiduals
    \/ GenerateAdjoint
    \/ Save

Spec == Init /\ [][Next]_vars
SpecKernel == InitKernel /\ [][Next]_vars
SpecHeader == InitHeader /\ [][Next]_vars


(***************************************************************************)
(* Where the call stands                                                   *)
(***************************************************************************)
Index(ch) == CHOOSE k \in 1..Len(channels) : channels[k] = ch

After(p) ==
    CASE p = "obs" -> {"syn", "resid", "adjoint", "save", "done"}
      [] p = "syn" -> {"resid", "adjoint", "save", "done"}
      [] p = "resid" -> {"adjoint", "save", "done"}
      [] p = "adjoint" -> {"save", "done"}
      [] p = "save" -> {"done"}

\* the apply (or save) of phase p has handled channel ch
Handled(p, ch) == (pc = p /\ Index(ch) < ci) \/ pc \in After(p)

\* the forward-conditioned matrices, recomputed from what the reader gave
CondObs(ch) == process_traces(raw_obs[ch], h).m
CondSyn(ch) == process_traces(raw_syn[ch], h).m

(***************************************************************************)
(* C1: with BANDPASS true the filter mode, forward and reverse, is chosen  *)
(* by which of FREQLO/FREQHI are non-zero: both selects bandpass, only     *)
(* FREQLO selects highpass with corner FREQLO, only FREQHI selects lowpass *)
(* with corner FREQHI, and ParameterError is raised exactly when both are  *)
(* zero.  Stated of every call once the first process_traces has run.      *)
(***************************************************************************)
C1_FilterModeByCorners ==
    (PAR.BANDPASS /\ pc # "load" /\ ~(pc = "obs" /\ ci = 1)) =>
        LET lo == PAR.FREQLO # 0
            hi == PAR.FREQHI # 0
        IN  /\ (err = "ParameterError") <=> (~lo /\ ~hi)
            /\ (lo \/ hi) => fcalls # <<>>
            /\ \A k \in DOMAIN fcalls :
                  /\ (lo /\ hi) =>
                        /\ fcalls[k].fn = "sbandpass"
                        /\ fcalls[k].corners = <<PAR.FREQLO, PAR.FREQHI>>
                  /\ (lo /\ ~hi) =>
                        /\ fcalls[k].fn = "shighpass"
                        /\ fcalls[k].corners = <<PAR.FREQLO>>
                  /\ (~lo /\ hi) =>
                        /\ fcalls[k].fn = "slowpass"
                        /\ fcalls[k].corners = <<PAR.FREQHI>>

(***************************************************************************)
(* C2: for every MISFIT name outside all alias groups (case-insensitive),  *)
(* call_misfit returns 0 and call_adjoint returns the observed trace       *)
(* unchanged, and neither raises.                                          *)
(***************************************************************************)
KnownSpellings == UNION {CaseVariants(a) : a \in AliasNames}

C2_UnknownKernelFallback ==
    (PAR.MISFIT \notin KnownSpellings /\ ~PAR.BANDPASS) =>
        /\ err = "none" /\ pc # "failed"
        /\ \A ch \in DOMAIN r : \A i \in 1..h.nr : r[ch][i] = 0
        /\ \A ch \in Range(channels) :
              Handled("adjoint", ch) => \A i \in 1..h.nr : s[ch][i] = d[ch][i]

C2_Witness ==
    /\ pc = "done"
    /\ PAR.MISFIT = N_bogus
    /\ r["x"] = [i \in 1..NumRec |-> 0]
    /\ s["x"] = raw_obs["x"]
    /\ raw_syn["x"] # raw_obs["x"]

(***************************************************************************)
(* C3: every spelling (any mix of upper and lower case) of every name of   *)
(* an alias group makes call_misfit evaluate that group's misfit kernel    *)
(* and call_adjoint that group's adjoint kernel, envelope with eps = 0.05. *)
(***************************************************************************)
KernelTags == {"wdiff", "wtime", "wampl", "ediff", "cdiff"}

SpellingsOf ==
    [k \in KernelTags |->
        UNION {CaseVariants(a) : a \in
            CASE k = "wdiff" -> {N_waveform, N_wav, N_wdiff}
              [] k = "wtime" -> {N_traveltime, N_tt, N_wtime}
              [] k = "wampl" -> {N_amplitude, N_ampl, N_wampl}
              [] k = "ediff" -> {N_envelope, N_env, N_ediff}
              [] k = "cdiff" -> {N_cdiff}}]

MisfitOf(k, wsyn, wobs, nt, dt) ==
    CASE k = "wdiff" -> misfit_wdiff(wsyn, wobs, nt, dt)
      [] k = "wtime" -> misfit_wtime(wsyn, wobs, nt, dt)
      [] k = "wampl" -> misfit_wampl(wsyn, wobs, nt, dt)
      [] k = "ediff" -> misfit_ediff(wsyn, wobs, nt, dt, 5)
      [] k = "cdiff" -> misfit_cdiff(wsyn, wobs, nt, dt)

AdjointOf(k, wsyn, wobs, nt, dt) ==
    CASE k = "wdiff" -> adjoint_wdiff(wsyn, wobs, nt, dt)
      [] k = "wtime" -> adjoint_wtime(wsyn, wobs, nt, dt)
      [] k = "wampl" -> adjoint_wampl(wsyn, wobs, nt, dt)
      [] k = "ediff" -> adjoint_ediff(wsyn, wobs, nt, dt, 5)
      [] k = "cdiff" -> adjoint_cdiff(wsyn, wobs, nt, dt)

C3_AliasDispatch ==
    \A k \in KernelTags :
        (PAR.MISFIT \in SpellingsOf[k] /\ ~PAR.BANDPASS /\ ~PAR.MUTE) =>
            /\ \A ch \in DOMAIN r : \A i \in 1..h.nr :
                  r[ch][i] = MisfitOf(k, raw_syn[ch][i], raw_obs[ch][i], h.nt, h.dt)
            /\ \A ch \in Range(channels) :
                  Handled("adjoint", ch) => \A i \in 1..h.nr :
                      s[ch][i] =
                          AdjointOf(k, raw_syn[ch][i], raw_obs[ch][i], h.nt, h.dt)

C3_Witness ==
    /\ pc = "done"
    /\ PAR.MISFIT = <<"E","n","V","e","L","o","P","e">>
    /\ \E i \in 1..NumRec :
          /\ r["x"][i] = misfit_ediff(raw_syn["x"][i], raw_obs["x"][i], h.nt, h.dt, 5)
          /\ r["x"][i] # misfit_wdiff(raw_syn["x"][i], raw_obs["x"][i], h.nt, h.dt)
          /\ r["x"][i] # 0

(***************************************************************************)
(* C4: with NORMALIZE on, generate_adjoint_traces leaves the adjoint trace *)
(* of every receiver whose observed trace has norm zero at its             *)
(* pre-normalization value, and divides the adjoint trace of every other   *)
(* receiver by the norm of that receiver's own observed trace.             *)
(***************************************************************************)
PreNormalization(ch) ==
    LET raw == adjoint_columns(CondSyn(ch), CondObs(ch), h)
    IN  IF PAR.BANDPASS THEN sbandpass(raw, h, PAR.FREQLO, PAR.FREQHI, "reverse")
        ELSE raw

C4_NormalizationGuard ==
    \A ch \in Range(channels) :
        (PAR.NORMALIZE /\ Handled("adjoint", ch)) =>
            \A ir \in 1..h.nr :
                /\ s[ch][ir] = PreNormalization(ch)[ir]
                /\ SumSq(CondObs(ch)[ir], h.nt) = 0 => scale[ch][ir] = 1
                /\ SumSq(CondObs(ch)[ir], h.nt) > 0 =>
                      scale[ch][ir] = SumSq(CondObs(ch)[ir], h.nt)

C4_Witness ==
    /\ pc = "done"
    /\ PAR.NORMALIZE
    /\ \E ch \in Range(channels) : \E i, j \in 1..NumRec :
          /\ SumSq(d[ch][i], h.nt) = 0
          /\ scale[ch][i] = 1
          /\ s[ch][i] # [t \in 1..NumSamp |-> 0]
          /\ scale[ch][j] > 1
          /\ adj[ch].scale = scale[ch]

(***************************************************************************)
(* C5: write_residuals yields exactly nr entries in receiver order, entry  *)
(* i being the misfit of column i of the synthetic and column i of the     *)
(* observed matrix only: replacing every other column leaves it as it is.  *)
(* The same vector is what the 'residuals' file holds after the write.     *)
(***************************************************************************)
OtherMatrices == {ObsMat(0, MaxVal), ObsMat(1, MaxVal), SynMat(0), SynMat(1)}

C5_ResidualAlignment ==
    \A ch \in DOMAIN r :
        /\ DOMAIN r[ch] = 1..h.nr
        /\ LET cs == CondSyn(ch)
               co == CondObs(ch)
           IN  \A i \in 1..h.nr :
                  /\ r[ch][i] = call_misfit(cs[i], co[i], h.nt, h.dt)
                  /\ \A x \in OtherMatrices :
                        r[ch][i] = write_residuals([x EXCEPT ![i] = cs[i]],
                                                   [x EXCEPT ![i] = co[i]], h)[i]
        /\ (pc = "resid" /\ ci = Index(ch) + 1) => residuals = r[ch]

C5_Witness ==
    /\ pc = "resid" /\ ci = 2
    /\ DOMAIN r["x"] = 1..NumRec
    /\ r["x"][1] # r["x"][2]
    /\ residuals = r["x"]


(***************************************************************************)
(* C6 as stated: with BANDPASS false, process_traces returns its input for *)
(* every channel and receiver, whatever the other parameters are.          *)
(***************************************************************************)
C6_BypassWhenFilterOff ==
    ~PAR.BANDPASS =>
        \A ch \in Range(channels) :
            /\ Handled("obs", ch) => d[ch] = raw_obs[ch]
            /\ (Handled("syn", ch) /\ ~Handled("adjoint", ch) /\ pc # "adjoint")
                  => s[ch] = raw_syn[ch]

(***************************************************************************)
(* C6 amended: with BANDPASS false and MUTE false, process_traces returns  *)
(* its input for every channel and receiver, whatever FREQLO, FREQHI,      *)
(* MUTESLOPE, MUTECONST and the other parameters are.                      *)
(***************************************************************************)
C6_BypassWhenFilterAndMuteOff ==
    (~PAR.BANDPASS /\ ~PAR.MUTE) =>
        \A ch \in Range(channels) :
            /\ Handled("obs", ch) => d[ch] = raw_obs[ch]
            /\ (Handled("syn", ch) /\ ~Handled("adjoint", ch) /\ pc # "adjoint")
                  => s[ch] = raw_syn[ch]

C6_Witness ==
    /\ ~PAR.BANDPASS /\ ~PAR.MUTE
    /\ PAR.MUTECONST # 0 /\ PAR.FREQLO # 0 /\ PAR.FREQHI # 0
    /\ pc = "resid" /\ ci = 1
    /\ d = raw_obs /\ s = raw_syn
    /\ \E ch \in Range(channels) : d[ch][NumRec][1] # 0

(***************************************************************************)
(* C7: check_headers returns one of the headers it was given with dt set   *)
(* to the configured DT (when configured) and nothing else changed; a      *)
(* configured NT or NREC that differs from the header's nt or nr only      *)
(* emits a warning.                                                        *)
(***************************************************************************)
C7_HeaderReconciled ==
    pc # "load" =>
        \E c \in Range(channels) :
            /\ DOMAIN h = DOMAIN hdr_obs[c]
            /\ h.dt = IF "DT" \in DOMAIN PAR THEN PAR.DT ELSE hdr_obs[c].dt
            /\ \A f \in DOMAIN h \ {"dt"} : h[f] = hdr_obs[c][f]
            /\ ("NT" \in DOMAIN PAR /\ PAR.NT # hdr_obs[c].nt) =>
                  "Warning: h.nt != PAR.NT" \in Range(warnings)
            /\ ("NREC" \in DOMAIN PAR /\ PAR.NREC # hdr_obs[c].nr) =>
                  "Warning: h.nr != PAR.NREC" \in Range(warnings)

C7_Witness ==
    /\ pc = "obs"
    /\ "DT" \in DOMAIN PAR /\ "NT" \in DOMAIN PAR /\ "NREC" \in DOMAIN PAR
    /\ \A c \in Range(channels) : hdr_obs[c].dt # PAR.DT
    /\ h.dt = PAR.DT
    /\ PAR.NT # h.nt /\ PAR.NREC # h.nr
    /\ h.nt = NumSamp /\ h.nr = NumRec
    /\ Len(warnings) >= 2

C9_ResidualsOverwritten ==
    (Len(channels) > 1 /\ pc = "done") =>
        /\ nwrites = Len(channels)
        /\ Len(residuals) = h.nr
        /\ residuals = r[channels[Len(channels)]]
        /\ DOMAIN r = Range(channels)
        /\ \A ch \in Range(channels) : Len(r[ch]) = h.nr

C9_Witness ==
    /\ pc = "done"
    /\ Len(channels) = 2
    /\ r["x"] # r["z"]
    /\ residuals = r["z"]
    /\ nwrites = 2

(***************************************************************************)
(* C10: every channel's residuals are computed before any synthetic column *)
(* is replaced by an adjoint trace: each entry is the misfit of the        *)
(* forward-conditioned synthetic and observed columns, and the observed    *)
(* matrices stay as forward conditioning left them through residual        *)
(* computation and adjoint generation.                                     *)
(***************************************************************************)
C10_ResidualsBeforeAdjoint ==
    /\ \A ch \in DOMAIN r : \A i \in 1..h.nr :
          r[ch][i] = call_misfit(CondSyn(ch)[i], CondObs(ch)[i], h.nt, h.dt)
    /\ (pc \in {"adjoint", "save", "done"}) => DOMAIN r = Range(channels)
    /\ (pc \in {"resid", "adjoint", "save", "done"}) =>
          \A ch \in Range(channels) : d[ch] = CondObs(ch)
    /\ (pc = "resid") => \A ch \in Range(channels) : s[ch] = CondSyn(ch)

C10_Witness ==
    /\ pc = "done"
    /\ PAR.MISFIT = N_bogus /\ PAR.NORMALIZE /\ PAR.MUTE
    /\ \E ch \in Range(channels) :
          /\ s[ch] = d[ch]
          /\ s[ch] # CondSyn(ch)
          /\ d[ch] = CondObs(ch)
          /\ d[ch] # raw_obs[ch]
          /\ \E i \in 1..NumRec : SumSq(d[ch][i], h.nt) > 0

====
